---- MODULE Spec2Model ----
(***************************************************************************)
(* AstraCode situational-awareness pipeline: the article store             *)
(* (src/database.py), the risk engine (src/engine.py) and the ingestion    *)
(* loop (src/pipeline.py, run_pipeline.py).                                *)
(*                                                                         *)
(* Two specifications share the store:                                     *)
(*   Spec    the single ingestion process: initialize, construct, then     *)
(*           the reload / process_feed / sleep cycle, one entry per step;  *)
(*   SpecDb  concurrent callers of save_article and fetch_latest on one    *)
(*           database, one SQLite statement per step.                      *)
(***************************************************************************)
EXTENDS Integers, Sequences, FiniteSets, TLC

(***************************************************************************)
(* Bounds of the model.                                                    *)
(***************************************************************************)
\* classifier confidences are the rationals k / ConfDen, k \in 0..ConfDen
ConfDen == 2
\* largest limit passed to fetch_latest
MaxLimit == 3

\* pipeline.py:53  feed.entries[:5]
FeedLimit == 5

Links == {"L1", "L2"}
\* feed lengths served by a source (before the [:5] slice)
FeedLens == {0, 1, 6}

(***************************************************************************)
(* engine.py: RiskEngine.preprocess.  A text is a sequence of lexical      *)
(* tokens: an HTML tag ("<b>", "</b>"), a character reference ("&amp;"),   *)
(* or a single character.                                                  *)
(***************************************************************************)
Tags == {"<b>", "</b>"}
WordChars == {"R", "r", "c", "x", "y"}
Whitespace == {" ", "\t"}
Punctuation == {".", ",", "!", "?", "'", "-"}
\* characters the regex [^\w\s.,!?'"-] deletes
Disallowed == {"@", "&", "<", ">"}

\* html.parser resolves a character reference to its character
Unescape(tok) ==
    CASE tok = "&amp;" -> "&"
      [] tok = "&lt;" -> "<"
      [] tok = "&gt;" -> ">"
      [] OTHER -> tok

RECURSIVE Lex(_)
\* html.parser finds the markup in the characters of the text: "<", a letter
\* and everything up to the next ">" is a tag; a "<" that opens no tag is text
Lex(text) ==
    IF text = <<>> THEN <<>>
    ELSE LET close == {j \in 3..Len(text) : text[j] = ">"}
         IN  IF Head(text) = "<" /\ close # {} /\ text[2] \in WordChars
             THEN LET end == CHOOSE j \in close : \A k \in close : j <= k
                  IN  <<"<b>">> \o Lex(SubSeq(text, end + 1, Len(text)))
             ELSE <<Head(text)>> \o Lex(Tail(text))

RECURSIVE TextNodes(_, _, _)
\* the text nodes of the parsed document, in document order: maximal runs
\* of non-tag tokens (acc: nodes so far, cur: the node being read)
TextNodes(text, acc, cur) ==
    IF text = <<>>
    THEN IF cur = <<>> THEN acc ELSE Append(acc, cur)
    ELSE IF Head(text) \in Tags
         THEN TextNodes(Tail(text), IF cur = <<>> THEN acc ELSE Append(acc, cur), <<>>)
         ELSE TextNodes(Tail(text), acc, Append(cur, Unescape(Head(text))))

RECURSIVE JoinNodes(_)
\* soup.get_text(separator=' ')
JoinNodes(nodes) ==
    IF nodes = <<>> THEN <<>>
    ELSE IF Len(nodes) = 1 THEN nodes[1]
    ELSE nodes[1] \o <<" ">> \o JoinNodes(Tail(nodes))

\* BeautifulSoup(text, "html.parser") and get_text
get_text(text) == JoinNodes(TextNodes(Lex(text), <<>>, <<>>))

\* a plausible slip: a character class that also keeps the angle brackets
StripDisallowedKeepAngle(text) ==
    SelectSeq(text, LAMBDA ch : ch \notin (Disallowed \ {"<", ">"}))

\* re.sub(r'[^\w\s.,!?\'"-]', '', text)
StripDisallowed(text) == SelectSeq(text, LAMBDA ch : ch \notin Disallowed)

RECURSIVE CollapseWs(_)
\* re.sub(r'\s+', ' ', text): every run of whitespace becomes one space
CollapseWs(text) ==
    IF text = <<>> THEN <<>>
    ELSE IF Head(text) \in Whitespace
         THEN IF Len(text) > 1 /\ text[2] \in Whitespace
              THEN CollapseWs(Tail(text))
              ELSE <<" ">> \o CollapseWs(Tail(text))
         ELSE <<Head(text)>> \o CollapseWs(Tail(text))

\* str.strip() after the collapse: at most one space at either end
Strip(text) ==
    LET a == IF text # <<>> /\ Head(text) \in Whitespace THEN Tail(text) ELSE text
    IN  IF a # <<>> /\ a[Len(a)] \in Whitespace THEN SubSeq(a, 1, Len(a) - 1) ELSE a

preprocess(text) ==
    IF text = <<>> THEN <<>>
    ELSE Strip(CollapseWs(StripDisallowed(get_text(text))))

\* titles the feeds serve
RawTitles == { <<"<b>", "R", "</b>", " ", "c", "@">>,
               <<"x", " ", "\t", "y", "&amp;">> }

(***************************************************************************)
(* engine.py: RiskEngine.analyze_risk.  The classifier's answer is its top *)
(* label and the confidence k / ConfDen.                                   *)
(***************************************************************************)
risk_labels == { "Critical Unrest", "Natural Disaster", "Economic Crisis",
                 "Political Instability", "Supply Chain Disruption",
                 "Normal Business Operation", "Positive Growth" }

Confidences == 0..ConfDen

\* a plausible slip: the Warning band scaled by 30 instead of 29
analyze_risk_scale30(top_label, k) ==
    IF top_label \in {"Critical Unrest", "Natural Disaster", "Supply Chain Disruption"}
    THEN [category |-> "Critical", risk_score |-> 80 + ((k * 20) \div ConfDen)]
    ELSE IF top_label \in {"Economic Crisis", "Political Instability"}
    THEN [category |-> "Warning", risk_score |-> 50 + ((k * 30) \div ConfDen)]
    ELSE IF top_label = "Positive Growth"
    THEN [category |-> "Opportunity", risk_score |-> 0]
    ELSE [category |-> "Info", risk_score |-> 10]

\* int(80 + confidence * 20), int(50 + confidence * 29): floor, as both are >= 0
analyze_risk(top_label, k) ==
    IF top_label \in {"Critical Unrest", "Natural Disaster", "Supply Chain Disruption"}
    THEN [category |-> "Critical", risk_score |-> 80 + ((k * 20) \div ConfDen)]
    ELSE IF top_label \in {"Economic Crisis", "Political Instability"}
    THEN [category |-> "Warning", risk_score |-> 50 + ((k * 29) \div ConfDen)]
    ELSE IF top_label = "Positive Growth"
    THEN [category |-> "Opportunity", risk_score |-> 0]
    ELSE [category |-> "Info", risk_score |-> 10]


(***************************************************************************)
(* database.py: the articles table.  A row keeps the columns the pipeline  *)
(* decides on; published, sector, lat, lon and is_upcoming are written     *)
(* with it and read by no step modelled here.                              *)
(***************************************************************************)
VARIABLES
    store,      \* the rows of table articles (committed)
    seq,        \* sqlite_sequence: the largest id ever assigned (AUTOINCREMENT)
    insertLog,  \* history: the links of the table's rows, in the order written
    pc,         \* where the ingestion process is
    uncaught,   \* the exception that ended the process, "none" while it runs
    config,     \* Pipeline.config / RiskEngine.config
    feed_list,  \* run(): the sources of this cycle
    srcIdx,     \* run(): position of the for loop over feed_list
    nEntries,   \* process_feed(): len(feed.entries[:5])
    entryIdx,   \* process_feed(): position of the for loop over the entries
    skipped,    \* history, per link: "now" when its insert hit a storage error in this
                \* cycle while the table lacked it, "before" when that happened in an
                \* earlier cycle that ended without a row for it, else "no"
    repolled,   \* history: links served again, with another title, while their row was stored
    interval,   \* run(): the interval being slept
    cycleLog,   \* history: the inserts of this cycle, [src, link], in the order written
    failed,     \* history: positions in feed_list of the sources whose process_feed
                \* call ended in its except clause in this cycle
    calls,      \* SpecDb: each caller's save_article call in progress
    lock,       \* SpecDb: the caller whose connection holds SQLite's write lock
    pending,    \* SpecDb: the lock holder's uncommitted table and sequence
    fetched,    \* SpecDb: the rows the last fetch_latest returned, and its limit
    df,         \* SpecAnalytics: RiskAnalytics.df, the loaded articles, newest first
    answer,     \* SpecAnalytics: the last analytics call, its argument and its result
    raw_text,   \* SpecEngine: the raw text handed to the risk engine
    call        \* SpecEngine: the last engine call, its arguments and its result

pipeVars == <<pc, uncaught, config, feed_list, srcIdx, nEntries, entryIdx,
              skipped, repolled, interval, cycleLog, failed>>
dbVars == <<store, seq, insertLog>>
callVars == <<calls, lock, pending, fetched>>
anVars == <<df, answer>>
engVars == <<raw_text, call>>
fnVars == <<anVars, engVars>>

HasLink(rows, link) == \E r \in rows : r.link = link

\* a plausible slip: a plain INSERT into a table whose link column is not UNIQUE
InsertNoUnique(rows, sq, data) ==
    [rows |-> rows \cup {[id |-> sq + 1] @@ data}, seq |-> sq + 1, rowcount |-> 1]

\* a plausible slip: INSERT OR REPLACE, which deletes the row holding the link
\* and writes the new one under a fresh id
InsertOrReplace(rows, sq, data) ==
    [rows |-> {r \in rows : r.link # data.link} \cup {[id |-> sq + 1] @@ data},
     seq |-> sq + 1, rowcount |-> 1]

\* INSERT OR IGNORE INTO articles ... with link TEXT UNIQUE and
\* id INTEGER PRIMARY KEY AUTOINCREMENT
InsertOrIgnore(rows, sq, data) ==
    IF HasLink(rows, data.link)
    THEN [rows |-> rows, seq |-> sq, rowcount |-> 0]
    ELSE [rows |-> rows \cup {[id |-> sq + 1] @@ data}, seq |-> sq + 1, rowcount |-> 1]

\* where the storage layer can fail inside save_article
DbFaults == {"none", "connect", "execute", "commit"}

\* save_article as one call of a caller running alone:
\*   connect raises  -> the exception leaves save_article (line 52 is outside the try)
\*   execute raises  -> except: print, return False; finally commits nothing
\*   commit raises   -> the exception raised in finally replaces the return; the
\*                      open transaction is rolled back with the connection
save_article(rows, sq, data, fault) ==
    LET ins == InsertOrIgnore(rows, sq, data)
    IN  CASE fault = "connect" -> [rows |-> rows, seq |-> sq, result |-> "raise"]
          [] fault = "execute" -> [rows |-> rows, seq |-> sq, result |-> "False"]
          [] fault = "commit"  -> [rows |-> rows, seq |-> sq, result |-> "raise"]
          [] OTHER -> [rows |-> ins.rows, seq |-> ins.seq,
                       result |-> IF ins.rowcount > 0 THEN "True" ELSE "False"]

RECURSIVE OrderByIdDesc(_)
\* ORDER BY id DESC
OrderByIdDesc(rows) ==
    IF rows = {} THEN <<>>
    ELSE LET top == CHOOSE r \in rows : \A q \in rows : q.id <= r.id
         IN  <<top>> \o OrderByIdDesc(rows \ {top})

\* a plausible slip: ORDER BY id ASC
fetch_latest_asc(rows, limit) ==
    LET all == OrderByIdDesc(rows)
        n == Len(all)
        asc == [i \in 1..n |-> all[n + 1 - i]]
    IN  SubSeq(asc, 1, IF limit < n THEN limit ELSE n)

\* SELECT * FROM articles ORDER BY id DESC LIMIT {limit}
fetch_latest(rows, limit) ==
    LET all == OrderByIdDesc(rows)
    IN  SubSeq(all, 1, IF limit < Len(all) THEN limit ELSE Len(all))

(***************************************************************************)
(* Configuration files and feed sources.                                   *)
(***************************************************************************)
\* engine.py:20  the configuration returned when config.json is missing
DefaultConfig ==
    [sector_logic |-> <<>>,
     app_settings |-> [refresh_interval_seconds |-> 300,
                       sources_file |-> "config/locations.json"]]

\* a config.json as the operator writes it
GoodConfig ==
    [sector_logic |-> <<[sector |-> "INFRASTRUCTURE", keywords |-> <<"riot">>]>>,
     app_settings |-> [refresh_interval_seconds |-> 60,
                       sources_file |-> "sources.json"]]

\* a config.json that is valid JSON and lacks app_settings
NoSettingsConfig == [sector_logic |-> <<>>]

\* what open('config/config.json') + json.load can meet
ConfigFiles == {"missing", "malformed", "good", "no_app_settings"}

\* load_config on a file that parses or is missing (a malformed file raises
\* json.JSONDecodeError, which load_config does not catch)
load_config(file) ==
    CASE file = "missing" -> DefaultConfig
      [] file = "good" -> GoodConfig
      [] OTHER -> NoSettingsConfig

\* reload_config reads locations.json inside a bare except: whatever the file
\* holds, the read raises nothing and sets only RiskEngine.locations, which no
\* step below reads; the file is therefore no input of Construct and Reload

Good == [name |-> "Feed", url |-> "u"]
NoName == [url |-> "u"]
NoUrl == [name |-> "Feed"]
\* the lists a sources file can hold
SourceLists == { <<Good, Good>>, <<NoUrl, Good>>, <<Good, NoName>> }
SourcesFiles == {[state |-> "missing"], [state |-> "malformed"]}
                \cup {[state |-> "ok", list |-> l] : l \in SourceLists}

\* feed entries: feedparser entries with or without title / link
Entries == [title : RawTitles, link : Links] \cup [title : RawTitles] \cup [link : Links]

\* engine.py:100  self.classifier(text, self.risk_labels): the pretrained model
\* is a fixed function of the text; its top label and confidence (k / ConfDen)
\* for the titles the feeds serve sit at the two edges where the scaled bands meet
classifier(text) ==
    IF text = <<"R", " ", "c">>
    THEN [label |-> "Supply Chain Disruption", k |-> 0]
    ELSE [label |-> "Political Instability", k |-> ConfDen]

\* feedparser.parse raises, or returns a feed of n entries
FeedOutcomes == {[raises |-> TRUE]} \cup [raises : {FALSE}, n : FeedLens]

\* rows a previous run of the pipeline left in data/news.db
OldRows == { [id |-> 1, title |-> <<"R", " ", "c">>, link |-> "L1", source |-> "Feed",
              category |-> "Info", risk_score |-> 10] }


(***************************************************************************)
(* Callers of the store running side by side (SpecDb).                     *)
(***************************************************************************)
Callers == {"w1", "w2"}
Idle == [at |-> "idle"]
NoPending == [rows |-> {}, seq |-> 0]

(***************************************************************************)
(* The ingestion process: run_pipeline.py, then Pipeline.run.              *)
(***************************************************************************)
Min(a, b) == IF a < b THEN a ELSE b

\* an exception nobody catches ends the process
Crash(exc) ==
    /\ pc' = "crashed"
    /\ uncaught' = exc
    /\ UNCHANGED <<srcIdx, nEntries, entryIdx>>

\* process_feed returns; run()'s for loop takes the next source
NextSource ==
    /\ pc' = "sources"
    /\ srcIdx' = srcIdx + 1
    /\ nEntries' = 0
    /\ entryIdx' = 0
    /\ UNCHANGED uncaught

\* a plausible slip: no except clause around the body of process_feed
HandlerMissing(source) == Crash("process_feed:Exception")

\* a plausible slip: the try/except placed inside the for loop, so that a failed
\* entry is skipped and the loop goes on to the next entry of the source
HandlerContinue(source) ==
    IF pc = "entry" /\ entryIdx < nEntries
    THEN /\ entryIdx' = entryIdx + 1
         /\ UNCHANGED <<pc, srcIdx, nEntries, uncaught>>
    ELSE NextSource

\* process_feed's except clause: print(f" Error processing {source_config['name']}: {e}")
\* then return; the lookup of 'name' is outside any try
Handler(source) ==
    IF "name" \in DOMAIN source THEN NextSource ELSE Crash("process_feed:KeyError")

\* database.py:11-43  NewsDatabase.initialize, called by run_pipeline.py before run()
Initialize ==
    /\ pc = "boot"
    /\ \E exists \in BOOLEAN, remove \in {"ok", "fail"}, connect \in {"ok", "fail"} :
          /\ store # {} => exists
          /\ IF exists /\ remove = "ok"
             THEN store' = {} /\ seq' = 0 /\ insertLog' = <<>>
             ELSE UNCHANGED dbVars      \* no file, or os.remove raised: except: pass
          /\ IF connect = "ok"
             THEN /\ pc' = "construct"  \* CREATE TABLE IF NOT EXISTS keeps a surviving table
                  /\ UNCHANGED uncaught
             ELSE /\ pc' = "crashed"
                  /\ uncaught' = "initialize:OperationalError"
    /\ UNCHANGED <<config, feed_list, srcIdx, nEntries, entryIdx,
                   skipped, repolled, interval, cycleLog, failed>>
    /\ UNCHANGED <<callVars, fnVars>>

\* pipeline.py:9-12  Pipeline.__init__: RiskEngine() runs reload_config, then load_config
Construct ==
    /\ pc = "construct"
    /\ \E cfg \in ConfigFiles :
          IF cfg = "malformed"
          THEN /\ pc' = "crashed"
               /\ uncaught' = "__init__:JSONDecodeError"
               /\ UNCHANGED config
          ELSE /\ pc' = "reload"
               /\ config' = load_config(cfg)
               /\ UNCHANGED uncaught
    /\ UNCHANGED <<feed_list, srcIdx, nEntries, entryIdx, skipped, repolled, interval,
                   cycleLog, failed>>
    /\ UNCHANGED dbVars
    /\ UNCHANGED <<callVars, fnVars>>

\* pipeline.py:18-33  the head of the while loop: reload the configuration and
\* read the sources file
Reload ==
    /\ pc = "reload"
    /\ \E cfg \in ConfigFiles, src \in SourcesFiles :
          IF cfg = "malformed"
          THEN /\ Crash("load_config:JSONDecodeError")
               /\ UNCHANGED <<config, feed_list>>
          ELSE /\ config' = load_config(cfg)
               /\ IF "app_settings" \notin DOMAIN load_config(cfg)
                  THEN Crash("run:KeyError") /\ UNCHANGED feed_list
                  ELSE IF src.state = "malformed"
                  THEN Crash("json.load:JSONDecodeError") /\ UNCHANGED feed_list
                  ELSE /\ feed_list' = IF src.state = "missing" THEN <<>> ELSE src.list
                       /\ pc' = "sources"
                       /\ srcIdx' = 1
                       /\ UNCHANGED <<uncaught, nEntries, entryIdx>>
    /\ UNCHANGED <<skipped, repolled, interval, cycleLog, failed>>
    /\ UNCHANGED dbVars
    /\ UNCHANGED <<callVars, fnVars>>

\* pipeline.py:45-53  process_feed up to the for loop: fetch and parse the feed
FetchFeed ==
    /\ pc = "sources"
    /\ srcIdx <= Len(feed_list)
    /\ LET source == feed_list[srcIdx]
       IN  \E feed \in FeedOutcomes :
              IF "url" \notin DOMAIN source \/ feed.raises
              THEN Handler(source) /\ failed' = failed \cup {srcIdx}
              ELSE /\ UNCHANGED failed
                   /\ IF feed.n = 0
                      THEN NextSource
                      ELSE /\ pc' = "entry"
                           /\ nEntries' = Min(feed.n, FeedLimit)
                           /\ entryIdx' = 1
                           /\ UNCHANGED <<srcIdx, uncaught>>
    /\ UNCHANGED <<config, feed_list, skipped, repolled, interval, cycleLog>>
    /\ UNCHANGED dbVars
    /\ UNCHANGED <<callVars, fnVars>>

\* pipeline.py:48  feedparser.parse(source_config['url']) is called with no
\* timeout, and no socket default timeout is set anywhere: a server that accepts
\* the connection and never answers keeps the call, and the process, waiting
FetchHangs ==
    /\ pc = "sources"
    /\ srcIdx <= Len(feed_list)
    /\ "url" \in DOMAIN feed_list[srcIdx]
    /\ pc' = "blocked"
    /\ UNCHANGED <<uncaught, config, feed_list, srcIdx, nEntries, entryIdx,
                   skipped, repolled, interval, cycleLog, failed>>
    /\ UNCHANGED dbVars
    /\ UNCHANGED <<callVars, fnVars>>

\* the article_data dict of pipeline.py:68-79
ArticleData(e, source) ==
    LET clean_title == preprocess(e.title)
        top == classifier(clean_title)
        risk == analyze_risk(top.label, top.k)
    IN  [title |-> clean_title, link |-> e.link, source |-> source.name,
         category |-> risk.category, risk_score |-> risk.risk_score]

\* pipeline.py:53-87  one iteration of the for loop over feed.entries[:5], with
\* entry e, the classifier in an outage or not, and the storage fault met by
\* save_article
ProcessEntry(e, outage, fault) ==
    /\ pc = "entry"
    /\ LET source == feed_list[srcIdx]
       IN  IF \/ "title" \notin DOMAIN e      \* entry.title: AttributeError
              \/ outage                      \* the classifier call raises
              \/ "link" \notin DOMAIN e       \* entry.link: AttributeError
              \/ "name" \notin DOMAIN source  \* source_config['name']: KeyError
           THEN /\ Handler(source)
                /\ failed' = failed \cup {srcIdx}
                /\ UNCHANGED <<dbVars, skipped, repolled, cycleLog>>
           ELSE LET data == ArticleData(e, source)
                    r == save_article(store, seq, data, fault)
                IN  /\ store' = r.rows
                    /\ seq' = r.seq
                    /\ insertLog' = IF r.result = "True"
                                    THEN Append(insertLog, data.link) ELSE insertLog
                    /\ skipped' = IF /\ fault # "none"
                                     /\ ~HasLink(store, data.link)
                                     /\ skipped[data.link] = "no"
                                  THEN [skipped EXCEPT ![data.link] = "now"]
                                  ELSE skipped
                    /\ repolled' = IF \E row \in store : /\ row.link = data.link
                                                         /\ row.title # data.title
                                   THEN repolled \cup {data.link} ELSE repolled
                    /\ cycleLog' = IF r.result = "True"
                                   THEN Append(cycleLog, [src |-> srcIdx, link |-> data.link])
                                   ELSE cycleLog
                    /\ IF r.result = "raise"
                       THEN Handler(source) /\ failed' = failed \cup {srcIdx}
                       ELSE /\ UNCHANGED failed
                            /\ IF entryIdx < nEntries
                               THEN /\ entryIdx' = entryIdx + 1
                                    /\ UNCHANGED <<pc, srcIdx, nEntries, uncaught>>
                               ELSE NextSource
    /\ UNCHANGED <<config, feed_list, interval>>
    /\ UNCHANGED <<callVars, fnVars>>

ProcessEntryStep ==
    \E e \in Entries, outage \in BOOLEAN, fault \in DbFaults :
        ProcessEntry(e, outage, fault)

\* pipeline.py:38-42  the for loop is over: read the interval and sleep
EndCycle ==
    /\ pc = "sources"
    /\ srcIdx > Len(feed_list)
    /\ interval' = config.app_settings.refresh_interval_seconds
    /\ pc' = "sleep"
    /\ skipped' = [l \in Links |->
                     IF skipped[l] = "now"
                     THEN IF HasLink(store, l) THEN "no" ELSE "before"
                     ELSE skipped[l]]
    /\ cycleLog' = <<>>
    /\ failed' = {}
    /\ UNCHANGED <<uncaught, config, feed_list, srcIdx, nEntries, entryIdx, repolled>>
    /\ UNCHANGED dbVars
    /\ UNCHANGED <<callVars, fnVars>>

\* time.sleep(interval) returns; the while loop starts over
Wake ==
    /\ pc = "sleep"
    /\ pc' = "reload"
    /\ interval' = 0
    /\ UNCHANGED <<uncaught, config, feed_list, srcIdx, nEntries, entryIdx,
                   skipped, repolled, cycleLog, failed>>
    /\ UNCHANGED dbVars
    /\ UNCHANGED <<callVars, fnVars>>

(***************************************************************************)
(* SpecDb: callers of save_article and fetch_latest on one database, each  *)
(* with its own connection.  A call is cut where SQLite lets another       *)
(* connection run: after connect, after execute, after commit.             *)
(***************************************************************************)
\* the articles callers save
DbArticles == { ArticleData(e, Good) : e \in [title : RawTitles, link : Links] }

\* database.py:52-54  save_article opens its connection; sqlite3.connect may raise
Call(w, data, connect) ==
    /\ calls[w].at = "idle"
    /\ calls' = [calls EXCEPT ![w] =
                   IF connect = "ok"
                   THEN [at |-> "connected", data |-> data, result |-> "none",
                         present |-> HasLink(store, data.link),
                         fault |-> FALSE, wrote |-> FALSE]
                   ELSE [at |-> "returned", data |-> data, result |-> "raise",
                         present |-> HasLink(store, data.link),
                         fault |-> TRUE, wrote |-> FALSE]]
    /\ UNCHANGED <<lock, pending, fetched>>
    /\ UNCHANGED <<dbVars, pipeVars, fnVars>>

\* database.py:59-66  c.execute(INSERT OR IGNORE ...) takes the write lock, which
\* the connection keeps until it commits; return c.rowcount > 0 is evaluated
Execute(w) ==
    /\ calls[w].at = "connected"
    /\ lock = "free"
    /\ LET ins == InsertOrIgnore(store, seq, calls[w].data)
       IN  /\ pending' = [rows |-> ins.rows, seq |-> ins.seq]
           /\ calls' = [calls EXCEPT ![w].at = "executed",
                           ![w].result = IF ins.rowcount > 0 THEN "True" ELSE "False"]
    /\ lock' = w
    /\ UNCHANGED fetched
    /\ UNCHANGED <<dbVars, pipeVars, fnVars>>

\* database.py:67-70  c.execute raises (the lock is held by another connection
\* past the busy timeout, or an I/O error): print, return False
ExecuteError(w) ==
    /\ calls[w].at = "connected"
    /\ calls' = [calls EXCEPT ![w].at = "executed", ![w].result = "False",
                               ![w].fault = TRUE]
    /\ UNCHANGED <<lock, pending, fetched>>
    /\ UNCHANGED <<dbVars, pipeVars, fnVars>>

\* database.py:71-75  finally: conn.commit(); conn.close().  A commit that raises
\* replaces the return value; the transaction is rolled back with the connection
Commit(w, commit) ==
    /\ calls[w].at = "executed"
    /\ IF lock = w
       THEN /\ lock' = "free"
            /\ pending' = NoPending
            /\ IF commit = "ok"
               THEN /\ store' = pending.rows
                    /\ seq' = pending.seq
                    /\ insertLog' = IF pending.rows # store
                                    THEN Append(insertLog, calls[w].data.link)
                                    ELSE insertLog
                    /\ calls' = [calls EXCEPT ![w].at = "returned",
                                               ![w].wrote = (pending.rows # store)]
               ELSE /\ calls' = [calls EXCEPT ![w].at = "returned",
                                               ![w].result = "raise",
                                               ![w].fault = TRUE]
                    /\ UNCHANGED dbVars
       ELSE \* no transaction is open: commit has nothing to do
            /\ commit = "ok"
            /\ calls' = [calls EXCEPT ![w].at = "returned"]
            /\ UNCHANGED <<lock, pending, dbVars>>
    /\ UNCHANGED fetched
    /\ UNCHANGED <<pipeVars, fnVars>>

\* the caller has its answer and may call again
Return(w) ==
    /\ calls[w].at = "returned"
    /\ calls' = [calls EXCEPT ![w] = Idle]
    /\ UNCHANGED <<lock, pending, fetched>>
    /\ UNCHANGED <<dbVars, pipeVars, fnVars>>

\* database.py:77-92  fetch_latest reads the committed table
Fetch(limit) ==
    /\ fetched' = [limit |-> limit, rows |-> fetch_latest(store, limit)]
    /\ UNCHANGED <<calls, lock, pending>>
    /\ UNCHANGED <<dbVars, pipeVars, fnVars>>

(***************************************************************************)
(* SpecAnalytics: analytics.py, the read side.  load_data keeps the rows    *)
(* fetch_latest returned, newest first; each row carries the columns the   *)
(* indicators read: sector, risk_score and published_dt (the hour of the   *)
(* parsed timestamp, or NaT).  Means are rationals [num, den].             *)
(***************************************************************************)
\* most articles in a loaded snapshot that is enumerated row by row
MaxArticles == 3

\* analytics.py:56  head(50)
HeadNational == 50
\* analytics.py:60  risk_score > 80
CriticalAbove == 80
\* analytics.py:111  head(10)
HeadSector == 10
\* analytics.py:202  len(history) < 3
MinBuckets == 3
\* analytics.py:212  the next 4 hours
ForecastPoints == 4

\* database.py:87  errors='coerce': a timestamp that does not parse
NaT == -1
Hours == {0, 1, 2}

\* analytics.py:99
TrackedSectors == {"INFRASTRUCTURE", "LOGISTICS", "FINANCE", "LABOR", "SOCIETY", "EVENTS"}

Articles ==
    [sector : {"FINANCE"}, risk_score : {0, 10, 85}, published_dt : {NaT} \cup Hours]
    \cup {[sector |-> "LABOR", risk_score |-> 85, published_dt |-> 1],
          [sector |-> "GENERAL", risk_score |-> 10, published_dt |-> NaT]}

BulkArticles == [sector : {"FINANCE"}, risk_score : {0, 10, 85}, published_dt : {0, 2}]

Repeat(a, n) == [i \in 1..n |-> a]

\* the snapshots load_data may hold: every short one, and long runs of one
\* article behind a newer one, at the lengths where head(50) and head(10) cut
Snapshots ==
    UNION {[1..n -> Articles] : n \in 0..MaxArticles}
    \cup {<<b>> \o Repeat(a, n) : a \in BulkArticles, b \in BulkArticles,
                                 n \in {HeadSector - 1, HeadSector,
                                        HeadNational - 1, HeadNational}}

\* the sector argument; "All" stands for None as well (analytics.py:35)
SectorChoices == {"All", "FINANCE", "LABOR"}

\* analytics.py:32-37
get_data(d, sector) ==
    IF sector = "All" THEN d ELSE SelectSeq(d, LAMBDA row : row.sector = sector)

\* DataFrame.head(n)
head(d, n) == SubSeq(d, 1, Min(n, Len(d)))

RECURSIVE SumScores(_)
SumScores(d) == IF d = <<>> THEN 0 ELSE d[1].risk_score + SumScores(Tail(d))

\* analytics.py:40-74; volume_last_24h depends on the wall clock and is left out.
\* int(100 - avg_risk) truncates; 100 - avg_risk >= 0, so it is the floor
get_national_indicators(d, sector) ==
    LET m == get_data(d, sector)
        top == head(m, HeadNational)
    IN  IF m = <<>>
        THEN [stability |-> 0, critical_count |-> 0]
        ELSE [stability |-> (100 * Len(top) - SumScores(top)) \div Len(top),
              critical_count |->
                  Len(SelectSeq(m, LAMBDA row : row.risk_score > CriticalAbove))]

\* analytics.py:94-114; int(mean) truncates
get_sector_status(d) ==
    IF d = <<>> THEN [sec \in {} |-> 0]
    ELSE [sec \in TrackedSectors |->
            LET sec_data == SelectSeq(d, LAMBDA row : row.sector = sec)
                top == head(sec_data, HeadSector)
            IN  IF sec_data = <<>> THEN 0 ELSE SumScores(top) \div Len(top)]

NaN == [num |-> 0, den |-> 0]
Rat(n) == [num |-> n, den |-> 1]
RatEq(a, b) == a.den # 0 /\ b.den # 0 /\ a.num * b.den = b.num * a.den

SetMin(S) == CHOOSE x \in S : \A y \in S : x <= y
SetMax(S) == CHOOSE x \in S : \A y \in S : x >= y

\* a plausible slip: resample('H').mean() without fillna(0), an hour without
\* articles keeps NaN
BucketMeanNoFill(m, h) ==
    LET rows == SelectSeq(m, LAMBDA row : row.published_dt = h)
    IN  IF rows = <<>> THEN NaN ELSE [num |-> SumScores(rows), den |-> Len(rows)]

\* analytics.py:198  one bucket of resample('H').mean().fillna(0)
BucketMean(m, h) ==
    LET rows == SelectSeq(m, LAMBDA row : row.published_dt = h)
    IN  IF rows = <<>> THEN Rat(0) ELSE [num |-> SumScores(rows), den |-> Len(rows)]

\* analytics.py:194-198  the hourly series from the earliest to the latest
\* hour; rows without a timestamp fall in no bucket
History(m) ==
    LET stamps == {m[i].published_dt : i \in 1..Len(m)} \ {NaT}
        first == SetMin(stamps)
        last == SetMax(stamps)
    IN  [i \in 1..(last - first + 1) |->
            [published_dt |-> first + i - 1, mean |-> BucketMean(m, first + i - 1)]]

RECURSIVE SumSeq(_)
SumSeq(q) == IF q = <<>> THEN 0 ELSE q[1] + SumSeq(Tail(q))
RECURSIVE ProdSeq(_)
ProdSeq(q) == IF q = <<>> THEN 1 ELSE q[1] * ProdSeq(Tail(q))

\* analytics.py:205-213  LinearRegression().fit(X, y).predict(x) with
\* X = 0..len(y)-1: ordinary least squares, in exact arithmetic.  y is put on
\* the common denominator D
Predict(y, x) ==
    LET n == Len(y)
        D == ProdSeq([i \in 1..n |-> IF y[i].den = 0 THEN 0 ELSE y[i].den])
        Y == [i \in 1..n |-> IF y[i].den = 0 THEN 0 ELSE y[i].num * (D \div y[i].den)]
        Sx == SumSeq([i \in 1..n |-> i - 1])
        Sxx == SumSeq([i \in 1..n |-> (i - 1) * (i - 1)])
        Sy == SumSeq(Y)
        Sxy == SumSeq([i \in 1..n |-> (i - 1) * Y[i]])
        den == n * Sxx - Sx * Sx
        slope == n * Sxy - Sx * Sy
    IN  [num |-> Sy * den - slope * Sx + n * slope * x, den |-> n * den * D]

NoForecast == <<>>

\* analytics.py:179-233  the chart rows: the history with its 'Actual Trend',
\* the last of them also carrying 'AI Forecast', then the predicted hours
get_forecast(d, sector) ==
    LET m == get_data(d, sector)
    IN  IF m = <<>> \/ \A i \in 1..Len(m) : m[i].published_dt = NaT
        THEN NoForecast
        ELSE LET history == History(m)
                 n == Len(history)
                 y == [i \in 1..n |-> history[i].mean]
                 last_date == history[n].published_dt
             IN  IF n < MinBuckets THEN NoForecast
                 ELSE [i \in 1..n |->
                         [published_dt |-> history[i].published_dt,
                          actual |-> y[i],
                          forecast |-> IF i = n THEN y[n] ELSE NaN]]
                      \o
                      [j \in 1..ForecastPoints |->
                         [published_dt |-> last_date + j,
                          actual |-> NaN,
                          forecast |-> Predict(y, n + j - 1)]]

NoAnswer == [fn |-> "none"]

Indicators(sector) ==
    /\ answer' = [fn |-> "get_national_indicators", sector |-> sector,
                  value |-> get_national_indicators(df, sector)]
    /\ UNCHANGED df
    /\ UNCHANGED <<dbVars, pipeVars, callVars, engVars>>

SectorStatus ==
    /\ answer' = [fn |-> "get_sector_status", value |-> get_sector_status(df)]
    /\ UNCHANGED df
    /\ UNCHANGED <<dbVars, pipeVars, callVars, engVars>>

Forecast(sector) ==
    /\ answer' = [fn |-> "get_forecast", sector |-> sector,
                  value |-> get_forecast(df, sector)]
    /\ UNCHANGED df
    /\ UNCHANGED <<dbVars, pipeVars, callVars, engVars>>

(***************************************************************************)
(* SpecEngine: engine.py, the text functions of the risk engine applied to *)
(* one raw text: preprocess, again to its own output, and detect_sector on *)
(* the clean text as process_feed calls it.                                *)
(***************************************************************************)
\* longest raw text, in tokens
MaxLen == 3

\* the characters and character references of a raw text
TextTokens == {"<", ">", "&lt;", "&gt;", "R", "c", " ", "\t"}
RawTexts == UNION {[1..n -> TextTokens] : n \in 0..MaxLen}

\* str.lower()
Lower(ch) == IF ch = "R" THEN "r" ELSE ch
lower(t) == [i \in 1..Len(t) |-> Lower(t[i])]

\* word in text: substring
Contains(t, word) ==
    \E i \in 0..(Len(t) - Len(word)) : SubSeq(t, i + 1, i + Len(word)) = word

\* the sector_logic object of config.json, in the order of its keys:
\* overlapping keywords in both orders, a keyword written with a capital, a
\* keyword of several characters, and no rule at all
RuleSets ==
    { <<>>,
      <<[sector |-> "INFRASTRUCTURE", keywords |-> << <<"r">> >>],
        [sector |-> "FINANCE", keywords |-> << <<"c">>, <<"r">> >>]>>,
      <<[sector |-> "FINANCE", keywords |-> << <<"c">>, <<"r">> >>],
        [sector |-> "INFRASTRUCTURE", keywords |-> << <<"r">> >>]>>,
      <<[sector |-> "INFRASTRUCTURE", keywords |-> << <<"R">> >>],
        [sector |-> "FINANCE", keywords |-> << <<"c">> >>]>>,
      <<[sector |-> "LABOR", keywords |-> << <<"r", " ", "c">> >>]>> }

\* engine.py:75-84; the keywords are compared as configured
detect_sector(sector_rules, t) ==
    LET text_lower == lower(t)
        hits == {i \in 1..Len(sector_rules) :
                    \E k \in 1..Len(sector_rules[i].keywords) :
                        Contains(text_lower, sector_rules[i].keywords[k])}
    IN  IF hits = {} THEN "GENERAL"
        ELSE sector_rules[CHOOSE i \in hits : \A j \in hits : i <= j].sector

NoCall == [fn |-> "none"]

\* engine.py:61-72  preprocess of the raw text, or of the output of the
\* preprocess call before
Preprocess ==
    /\ LET arg == IF call.fn = "preprocess" THEN call.value ELSE raw_text
       IN  call' = [fn |-> "preprocess", arg |-> arg, value |-> preprocess(arg)]
    /\ UNCHANGED raw_text
    /\ UNCHANGED <<dbVars, pipeVars, callVars, anVars>>

\* pipeline.py:55-61  detect_sector(clean_title) under the rules loaded
DetectSector(sector_rules) ==
    /\ LET clean_title == preprocess(raw_text)
       IN  call' = [fn |-> "detect_sector", rules |-> sector_rules, arg |-> clean_title,
                    value |-> detect_sector(sector_rules, clean_title)]
    /\ UNCHANGED raw_text
    /\ UNCHANGED <<dbVars, pipeVars, callVars, anVars>>

\* the risk engine has been handed nothing
EngineUnused ==
    /\ raw_text = <<>>
    /\ call = NoCall

\* the analytics engine has loaded nothing
AnalyticsUnused ==
    /\ df = <<>>
    /\ answer = NoAnswer

vars == <<store, seq, insertLog, pc, uncaught, config, feed_list,
          srcIdx, nEntries, entryIdx, skipped, repolled, interval,
          cycleLog, failed, calls, lock, pending, fetched, df, answer,
          raw_text, call>>

Init ==
    /\ store \in {{}, OldRows}
    /\ seq = Cardinality(store)
    /\ insertLog = IF store = {} THEN <<>> ELSE <<"L1">>
    /\ pc = "boot"
    /\ uncaught = "none"
    /\ config = <<>>
    /\ feed_list = <<>>
    /\ srcIdx = 0
    /\ nEntries = 0
    /\ entryIdx = 0
    /\ skipped = [l \in Links |-> "no"]
    /\ repolled = {}
    /\ interval = 0
    /\ cycleLog = <<>>
    /\ failed = {}
    /\ calls = [w \in Callers |-> Idle]
    /\ lock = "free"
    /\ pending = NoPending
    /\ fetched = [limit |-> 0, rows |-> <<>>]
    /\ AnalyticsUnused
    /\ EngineUnused

Next ==
    \/ Initialize
    \/ Construct
    \/ Reload
    \/ FetchFeed
    \/ FetchHangs
    \/ ProcessEntryStep
    \/ EndCycle
    \/ Wake

Spec == Init /\ [][Next]_vars

\* the ingestion process is the only thread of run_pipeline.py: while one of its
\* steps can be taken (a call returns or raises, time.sleep ends) it is taken
SpecFair == Spec /\ WF_vars(Next)

NextDb ==
    \/ \E w \in Callers, data \in DbArticles, connect \in {"ok", "fail"} :
          Call(w, data, connect)
    \/ \E w \in Callers : Execute(w)
    \/ \E w \in Callers : ExecuteError(w)
    \/ \E w \in Callers, commit \in {"ok", "fail"} : Commit(w, commit)
    \/ \E w \in Callers : Return(w)
    \/ \E limit \in 0..MaxLimit : Fetch(limit)

SpecDb == Init /\ [][NextDb]_vars

\* the ingestion process and the callers of SpecDb are not running
PipelineUnused ==
    /\ store = {}
    /\ seq = 0
    /\ insertLog = <<>>
    /\ pc = "boot"
    /\ uncaught = "none"
    /\ config = <<>>
    /\ feed_list = <<>>
    /\ srcIdx = 0
    /\ nEntries = 0
    /\ entryIdx = 0
    /\ skipped = [l \in Links |-> "no"]
    /\ repolled = {}
    /\ interval = 0
    /\ cycleLog = <<>>
    /\ failed = {}
    /\ calls = [w \in Callers |-> Idle]
    /\ lock = "free"
    /\ pending = NoPending
    /\ fetched = [limit |-> 0, rows |-> <<>>]

\* analytics.py:22-28  load_data has run; then the dashboard calls the indicators
InitAnalytics ==
    /\ PipelineUnused
    /\ EngineUnused
    /\ df \in Snapshots
    /\ answer = NoAnswer

NextAnalytics ==
    \/ \E sector \in SectorChoices : Indicators(sector)
    \/ SectorStatus
    \/ \E sector \in SectorChoices : Forecast(sector)

SpecAnalytics == InitAnalytics /\ [][NextAnalytics]_vars

InitEngine ==
    /\ PipelineUnused
    /\ AnalyticsUnused
    /\ raw_text \in RawTexts
    /\ call = NoCall

NextEngine ==
    \/ Preprocess
    \/ \E sector_rules \in RuleSets : DetectSector(sector_rules)

SpecEngine == InitEngine /\ [][NextEngine]_vars


(***************************************************************************)
(* Properties.                                                             *)
(***************************************************************************)
RowsWithLink(rows, link) == {r \in rows : r.link = link}
Returned(w) == calls[w].at = "returned"

\* C1: the articles table holds at most one row per link, also while callers
\* interleave; a save_article call that finds its link present writes no row
\* and returns False (it never reports a new row, and returns False whenever
\* the storage layer raises nothing), and a call that wrote a row returns True.
C1_OneRowPerLink ==
    /\ \A r1, r2 \in store : r1.link = r2.link => r1 = r2
    /\ \A r1, r2 \in pending.rows : r1.link = r2.link => r1 = r2
    /\ \A w \in Callers :
          Returned(w) =>
             /\ calls[w].present =>
                   /\ ~calls[w].wrote
                   /\ calls[w].result # "True"
                   /\ ~calls[w].fault => calls[w].result = "False"
             /\ calls[w].wrote => calls[w].result = "True"
             /\ calls[w].result = "True" =>
                   Cardinality(RowsWithLink(store, calls[w].data.link)) = 1

\* two interleaved calls for one link, both begun while the link was absent:
\* one wrote the row and returned True, the other wrote nothing and returned False
C1_Witness ==
    /\ Returned("w1") /\ Returned("w2")
    /\ calls["w1"].data.link = calls["w2"].data.link
    /\ ~calls["w1"].present /\ ~calls["w2"].present
    /\ calls["w1"].wrote /\ calls["w1"].result = "True"
    /\ ~calls["w2"].wrote /\ ~calls["w2"].fault /\ calls["w2"].result = "False"

InBand(category, score) ==
    CASE category = "Critical" -> 80 <= score /\ score <= 100
      [] category = "Warning" -> 50 <= score /\ score <= 79
      [] category = "Opportunity" -> score = 0
      [] category = "Info" -> score = 10
      [] OTHER -> FALSE

\* C2: for every top label (one of risk_labels or any other) and every
\* confidence in [0,1], analyze_risk answers inside the band of its category:
\* Critical 80..100, Warning 50..79, Opportunity 0, Info 10; and every stored
\* article has a risk_score in 0..100 inside the band of its category.
C2_ScoreBands ==
    /\ \A label \in risk_labels \cup {"Unrecognized"}, k \in Confidences :
          LET r == analyze_risk(label, k)
          IN  InBand(r.category, r.risk_score)
    /\ \A row \in store :
          /\ row.risk_score \in 0..100
          /\ InBand(row.category, row.risk_score)

\* the pipeline has stored a Warning at the top of its band beside a Critical
\* at the bottom of its band
C2_Witness ==
    /\ pc = "sleep"
    /\ \E row \in store : row.category = "Warning" /\ row.risk_score = 79
    /\ \E row \in store : row.category = "Critical" /\ row.risk_score = 80

\* C3: a failure of one configured source never aborts the cycle: every step
\* of source processing leads to the next entry, the next source or the
\* sleep step (or waits in a fetch, which aborts nothing).
C3_SourceFailureIsolated ==
    [][(pc \in {"sources", "entry"}) => (pc' \in {"sources", "entry", "sleep", "blocked"} )]_vars

\* C4: a configuration reload failure never terminates the ingestion loop:
\* from the head of the loop the cycle always goes on to its sources.
C4_ReloadNeverFatal ==
    [][pc = "reload" => pc' = "sources"]_vars

\* C5: when the classifier fails for an entry that is not the last of the
\* first 5, nothing is stored for it and the loop goes on to the next entry of
\* the same source.
C5_ClassifierFailurePerItem ==
    [][\A e \in [title : RawTitles, link : Links] :
          (ProcessEntry(e, TRUE, "none") /\ entryIdx < nEntries)
             => /\ store' = store
                /\ pc' = "entry"
                /\ srcIdx' = srcIdx
                /\ entryIdx' = entryIdx + 1]_vars

\* save_article is reached for entry e and meets the storage fault
SaveStep(e, fault) ==
    /\ ProcessEntry(e, FALSE, fault)
    /\ "name" \in DOMAIN feed_list[srcIdx]

\* C6: a storage error inside save_article writes nothing and leaves the
\* ingestion process running; an insert that meets no storage error leaves
\* exactly one stored row for its link, also when the link was skipped before.
\* (written outcome-first: a step is a SaveStep only if its outcome is as claimed)
C6_StorageErrorSkips ==
    [][\A e \in [title : RawTitles, link : Links], fault \in DbFaults :
          \/ IF fault # "none"
             THEN store' = store /\ pc' \in {"sources", "entry"} /\ uncaught' = "none"
             ELSE Cardinality(RowsWithLink(store', e.link)) = 1
          \/ ~SaveStep(e, fault)]_vars

\* a link whose insert hit a storage error, in a cycle that ended without a row
\* for it, is stored once after a later cycle served it again
C6_Witness ==
    /\ uncaught = "none"
    /\ \E link \in Links : /\ skipped[link] = "before"
                           /\ Cardinality(RowsWithLink(store, link)) = 1

\* what save_article returns for a duplicate link when nothing fails
DuplicateResult ==
    LET data == CHOOSE d \in DbArticles : TRUE
        rows == InsertOrIgnore({}, 0, data).rows
    IN  save_article(rows, 1, data, "none").result

\* C7: a storage error during insert reaches the caller of save_article as an
\* outcome it can tell apart from the result of a duplicate link.
C7_StorageErrorSurfaced ==
    \A w \in Callers :
        (Returned(w) /\ calls[w].fault) => calls[w].result # DuplicateResult

\* C8: once the ingestion loop runs, every stored row stays in the table with
\* its id and all its field values, whatever is polled again.
C8_RowsNeverChange ==
    [][pc # "boot" => \A row \in store : row \in store']_vars

\* a stored link was served again with another title, and the loop went on
C8_Witness ==
    /\ pc = "sleep"
    /\ \E link \in repolled : HasLink(store, link)

\* C9: whenever initialize returns normally, no row from before the call is
\* left in the store.
C9_ResetDestroysAllRows ==
    [][(pc = "boot" /\ pc' = "construct") => \A row \in store : row \notin store']_vars

\* the links of the `limit` newest entries of the insert history, newest first
NewestLinks(log, limit) ==
    LET n == Min(limit, Len(log))
    IN  [i \in 1..n |-> log[Len(log) + 1 - i]]

\* C10: for every limit, fetch_latest returns min(limit, store size) rows, the
\* most recently inserted ones, newest first; ids grow strictly with insert
\* order.
C10_FetchLatestNewestFirst ==
    /\ \A limit \in 0..MaxLimit :
          LET rows == fetch_latest(store, limit)
          IN  /\ Len(rows) = Min(limit, Cardinality(store))
              /\ [i \in 1..Len(rows) |-> rows[i].link] = NewestLinks(insertLog, limit)
              /\ \A i \in 1..(Len(rows) - 1) : rows[i].id > rows[i + 1].id
    /\ fetched.rows = <<>> \/
          \A i \in 1..Len(fetched.rows) : fetched.rows[i] \in store

\* a fetch with a limit below the table size returned the newest row only
C10_Witness ==
    /\ Cardinality(store) = 2
    /\ fetched.limit = 1
    /\ Len(fetched.rows) = 1
    /\ fetched.rows[1].link = insertLog[Len(insertLog)]
    /\ fetched.rows[1].id = seq

\* C11: the ingestion loop repeats its cycle forever: once run() has begun,
\* every step of the process is a step of the cycle -- from the reload to the
\* first source, from a source to its entries or to the next source in list
\* order, from the last source to the sleep with the interval of the
\* configuration loaded in this cycle, from the sleep to the next reload.
C11_CycleRepeatsInOrder ==
    [][(pc \notin {"boot", "construct"}) =>
          \/ pc = "reload" /\ pc' = "sources" /\ srcIdx' = 1
          \/ /\ pc \in {"sources", "entry"}
             /\ srcIdx <= Len(feed_list)
             /\ feed_list' = feed_list
             /\ \/ pc' = "entry" /\ srcIdx' = srcIdx
                \/ pc' = "sources" /\ srcIdx' = srcIdx + 1
          \/ /\ pc = "sources" /\ srcIdx > Len(feed_list)
             /\ pc' = "sleep"
             /\ config' = config
             /\ interval' = config.app_settings.refresh_interval_seconds
          \/ pc = "sleep" /\ pc' = "reload" /\ store' = store ]_vars

\* C12: every cycle that has begun processing its sources reaches the sleep
\* step (or the end of the process), also when a source never answers.
C12_CycleReachesSleep ==
    (pc = "sources") ~> (pc \in {"sleep", "crashed"})

\* the links source i inserted in this cycle, in the order written
SrcLinks(log, i) ==
    LET own == SelectSeq(log, LAMBDA rec : rec.src = i)
    IN  [j \in 1..Len(own) |-> own[j].link]

\* C18: when process_feed fails at an entry of a source, the rows written for
\* the earlier entries of that source in this cycle stay stored, and no row is
\* written for that source in the rest of the cycle.
C18_PartialProgressKept ==
    [][/\ \A i \in failed : pc' = "sleep" \/ SrcLinks(cycleLog', i) = SrcLinks(cycleLog, i)
       /\ \A j \in 1..Len(cycleLog') :
             cycleLog'[j].src \in failed' => HasLink(store', cycleLog'[j].link) ]_vars

\* the first source wrote two rows and failed at a later entry; both rows are
\* stored while the loop is at the second source
C18_Witness ==
    /\ pc = "sources" /\ srcIdx = 2 /\ uncaught = "none"
    /\ failed = {1}
    /\ Len(SrcLinks(cycleLog, 1)) = 2
    /\ \A j \in 1..Len(cycleLog) : HasLink(store, cycleLog[j].link)

\* round(s / n), halves to the even neighbour
RoundHalfEven(s, n) ==
    LET q == s \div n
        r == s % n
    IN  IF 2 * r < n THEN q
        ELSE IF 2 * r > n THEN q + 1
        ELSE IF q % 2 = 0 THEN q ELSE q + 1

\* C13: for a non-empty selection of articles, get_national_indicators
\* answers stability = 100 - round(mean risk_score of the 50 newest selected
\* articles) and critical_count = the number of selected articles with
\* risk_score > 80.
C13_StabilityRounded ==
    answer.fn = "get_national_indicators" =>
        LET m == get_data(df, answer.sector)
            newest == SubSeq(m, 1, Min(50, Len(m)))
        IN  m # <<>> =>
               /\ answer.value.critical_count =
                     Cardinality({i \in 1..Len(m) : m[i].risk_score > 80})
               /\ answer.value.stability =
                     100 - RoundHalfEven(SumScores(newest), Len(newest))

\* C14: for every snapshot, the empty one included, get_sector_status answers
\* a mapping over the six tracked sectors whose value is the average
\* risk_score of the sector's 10 newest articles, 0 for a sector without
\* articles.
C14_SectorStatusTotal ==
    answer.fn = "get_sector_status" =>
        /\ DOMAIN answer.value = {"INFRASTRUCTURE", "LOGISTICS", "FINANCE",
                                  "LABOR", "SOCIETY", "EVENTS"}
        /\ \A sec \in DOMAIN answer.value :
              LET rows == SelectSeq(df, LAMBDA row : row.sector = sec)
                  newest == SubSeq(rows, 1, Min(10, Len(rows)))
              IN  IF rows = <<>>
                  THEN answer.value[sec] = 0
                  ELSE answer.value[sec] * Len(newest) = SumScores(newest)

RECURSIVE ScoreSum(_, _)
\* the sum of the risk_score of the rows of m at the positions S
ScoreSum(m, S) ==
    IF S = {} THEN 0
    ELSE LET i == CHOOSE j \in S : TRUE
         IN  m[i].risk_score + ScoreSum(m, S \ {i})

\* C15: get_forecast answers null when no selected article has a timestamp or
\* when the hours from the earliest to the latest, both included, are fewer
\* than 3; otherwise it answers one row per hour of that range, with the mean
\* risk_score of the hour (0 for an hour without articles), followed by
\* exactly 4 projected rows for the next 4 hours, and when all the hourly
\* means are one constant the 4 projections are that constant.
C15_ForecastShape ==
    answer.fn = "get_forecast" =>
        LET m == get_data(df, answer.sector)
            stamps == {m[i].published_dt : i \in 1..Len(m)} \ {NaT}
            v == answer.value
        IN  IF stamps = {} THEN v = NoForecast
            ELSE LET first == SetMin(stamps)
                     last == SetMax(stamps)
                     span == last - first + 1
                     At(h) == {i \in 1..Len(m) : m[i].published_dt = h}
                 IN  IF span < 3 THEN v = NoForecast
                     ELSE /\ Len(v) = span + 4
                          /\ \A i \in 1..span :
                                /\ v[i].published_dt = first + i - 1
                                /\ v[i].actual.den # 0
                                /\ v[i].actual.num * Cardinality(At(first + i - 1))
                                      = ScoreSum(m, At(first + i - 1)) * v[i].actual.den
                                /\ At(first + i - 1) = {} => v[i].actual.num = 0
                          /\ \A j \in 1..4 :
                                /\ v[span + j].published_dt = last + j
                                /\ v[span + j].actual = NaN
                                /\ v[span + j].forecast.den # 0
                          /\ (\A i \in 1..span : RatEq(v[i].actual, v[1].actual))
                                => \A j \in 1..4 : RatEq(v[span + j].forecast, v[1].actual)

\* three hourly buckets, each with mean 10: the four projections are 10
C15_Witness ==
    /\ answer.fn = "get_forecast"
    /\ Len(answer.value) = 7
    /\ \A i \in 1..3 : RatEq(answer.value[i].actual, Rat(10))
    /\ \A i \in 4..7 : RatEq(answer.value[i].forecast, Rat(10))

\* C16: detect_sector answers the first sector, in the order of the rules, one
\* of whose keywords occurs in the text when letter case is ignored on both
\* sides, and GENERAL when no keyword of any sector occurs.
C16_FirstSectorIgnoringCase ==
    call.fn = "detect_sector" =>
        LET Occurs(i) == \E k \in 1..Len(call.rules[i].keywords) :
                            Contains(lower(call.arg), lower(call.rules[i].keywords[k]))
        IN  IF \E i \in 1..Len(call.rules) : Occurs(i)
            THEN \E i \in 1..Len(call.rules) :
                    /\ Occurs(i)
                    /\ \A j \in 1..(i - 1) : ~Occurs(j)
                    /\ call.value = call.rules[i].sector
            ELSE call.value = "GENERAL"

\* C17: preprocess is idempotent: a preprocess call on the output of the
\* preprocess call before it returns that output.
C17_PreprocessIdempotent ==
    [][(call.fn = "preprocess" /\ call'.fn = "preprocess") => call'.value = call.value]_vars

\* a raw text whose character references spell a tag around a letter was
\* cleaned to the letter, and cleaning the result again returned it
C17_Witness ==
    /\ raw_text = <<"&lt;", "R", "&gt;">>
    /\ call.fn = "preprocess"
    /\ call.arg = <<"R">>
    /\ call.value = <<"R">>

====
